---- MODULE Spec2Model ----
(***************************************************************************)
(* The token/SOL exchange program flexible_token_exchange                  *)
(* (programs/d-storage-app/src/lib.rs): one liquidity pool, its two vaults *)
(* held by the token program and the system program, and the six           *)
(* instructions initialize_pool, add_liquidity, swap_token_to_sol,         *)
(* swap_sol_to_token, remove_liquidity and update_pool_fee.                *)
(*                                                                         *)
(* Widths.  TLC computes with 32-bit integers, so the program's u64 is     *)
(* represented by an unsigned word of U64_BITS bits and its f64 by a       *)
(* binary float with a mantissa of F64_MANT_BITS bits; F64_MANT_BITS is    *)
(* smaller than U64_BITS and more than half of it, as 53 is of 64, so that *)
(* the conversions round on large values as they do in the program.        *)
(* Every arithmetic operator below is computed at these widths.            *)
(***************************************************************************)
EXTENDS Integers, Sequences, FiniteSets, TLC

\* ------------------------------------------------------------- bounds
U64_BITS == 20

F64_MANT_BITS == 13

MaxOps == 3

MaxLongOps == 5

\* instructions per history when the fee authority's key may sign
MaxSignedOps == 4

\* ------------------------------------------------------ program constants
FEE_DENOMINATOR == 10000

MAX_FEE_RATE == 1000

\* ------------------------------------------------------------ integers
U64_MODULUS == 2 ^ U64_BITS

U64_MAX == U64_MODULUS - 1

\* the value of an expression whose evaluation panicked
PANIC == 0 - 1

Min(a, b) == IF a <= b THEN a ELSE b

\* a * b modulo 2^U64_BITS, by doubling: no intermediate exceeds 3 * 2^U64_BITS
RECURSIVE WrappingMul(_, _)
WrappingMul(a, b) ==
    IF a = 0 THEN 0
    ELSE (2 * WrappingMul(a \div 2, b) + (a % 2) * b) % U64_MODULUS

MulOverflows(a, b) == a # 0 /\ b > U64_MAX \div a

\* u64 `+`: on overflow the build with overflow checks (chk) panics, the
\* build without them wraps
AddU64(chk, a, b) ==
    IF a = PANIC \/ b = PANIC THEN PANIC
    ELSE IF a + b > U64_MAX
         THEN (IF chk THEN PANIC ELSE a + b - U64_MODULUS)
         ELSE a + b

\* u64 `-`
SubU64(chk, a, b) ==
    IF a = PANIC \/ b = PANIC THEN PANIC
    ELSE IF a < b
         THEN (IF chk THEN PANIC ELSE a - b + U64_MODULUS)
         ELSE a - b

\* u64 `*`
MulU64(chk, a, b) ==
    IF a = PANIC \/ b = PANIC THEN PANIC
    ELSE IF MulOverflows(a, b)
         THEN (IF chk THEN PANIC ELSE WrappingMul(a, b))
         ELSE a * b

\* u64 division rounding up instead of down
DivU64RoundingUp(a, b) ==
    IF a = PANIC \/ b = PANIC \/ b = 0 THEN PANIC ELSE (a + b - 1) \div b

\* u64 `/`: division by zero panics in every build
DivU64(a, b) ==
    IF a = PANIC \/ b = PANIC THEN PANIC
    ELSE IF b = 0 THEN PANIC
    ELSE a \div b

\* --------------------------------------------------------------- floats
\* A float is <<m, e>>, the number m * 2^e, with m of at most F64_MANT_BITS
\* bits (or exactly 2^F64_MANT_BITS).
RECURSIVE BitLen(_)
BitLen(n) == IF n = 0 THEN 0 ELSE 1 + BitLen(n \div 2)

\* n * 2^e (plus, when sticky, a positive amount below the last bit of n)
\* rounded to the nearest float, ties to even
RoundToMant(n, e, sticky) ==
    LET len == BitLen(n)
        s == len - F64_MANT_BITS
        q == n \div (2 ^ s)
        r == n % (2 ^ s)
        half == 2 ^ (s - 1)
        up == r > half \/ (r = half /\ (sticky \/ q % 2 = 1))
    IN IF len <= F64_MANT_BITS THEN <<n, e>>
       ELSE <<(IF up THEN q + 1 ELSE q), e + s>>

\* `x as f64`
F64FromU64(a) == RoundToMant(a, 0, FALSE)

\* f64 `*`
F64Mul(x, y) == RoundToMant(x[1] * y[1], x[2] + y[2], FALSE)

\* floor of the square root of n
RECURSIVE ISqrt(_)
ISqrt(n) ==
    IF n < 2 THEN n
    ELSE LET s == 2 * ISqrt(n \div 4)
         IN IF (s + 1) * (s + 1) <= n THEN s + 1 ELSE s

\* f64::sqrt, correctly rounded: the mantissa is scaled to a radicand of
\* 2*F64_MANT_BITS+1 or +2 bits, whose integer root has one bit more than
\* the mantissa; that bit and the inexactness of the root decide the rounding
F64Sqrt(x) ==
    LET m == x[1]
        e == x[2]
        k0 == 2 * F64_MANT_BITS + 1 - BitLen(m)
        k == IF (e - k0) % 2 = 0 THEN k0 ELSE k0 + 1
        rad == m * (2 ^ k)
        s == ISqrt(rad)
    IN IF m = 0 THEN <<0, 0>>
       ELSE RoundToMant(s, (e - k) \div 2, s * s # rad)

\* `x as u64`: truncates toward zero and saturates
F64ToU64(x) ==
    LET m == x[1]
        e == x[2]
    IN IF e >= 0
       THEN (IF BitLen(m) + e > U64_BITS THEN U64_MAX ELSE m * (2 ^ e))
       ELSE m \div (2 ^ (0 - e))

\* (a as f64 * b as f64).sqrt() as u64
GeometricMean(a, b) ==
    F64ToU64(F64Sqrt(F64Mul(F64FromU64(a), F64FromU64(b))))

\* ------------------------------------------------------------- state
VARIABLES
    overflow_checks,   \* whether the build panics on integer overflow
    is_initialized,    \* LiquidityPool: the pool account exists
    token_reserve,
    sol_reserve,
    lp_supply,
    fee_rate,
    pool_authority,
    token_vault,       \* tokens held by the token vault (token program)
    sol_vault,         \* lamports deposited in the SOL vault (system program)
    lp_minted,         \* per caller: LP shares added to lp_supply by its deposits
    lp_redeemed,       \* per caller: LP shares it redeemed in remove_liquidity
    deposited,         \* a deposit has succeeded
    fee_updated,       \* an update_pool_fee has succeeded
    last,              \* the last instruction: its inputs and its outcome
    prev,              \* the instruction before it (kept in the longer histories)
    nops               \* instructions processed so far

vars == <<overflow_checks, is_initialized, token_reserve, sol_reserve,
          lp_supply, fee_rate, pool_authority, token_vault, sol_vault,
          lp_minted, lp_redeemed, deposited, fee_updated, last, prev, nops>>

\* the accounts an instruction reads and writes, as one record
State ==
    [is_initialized |-> is_initialized,
     token_reserve |-> token_reserve,
     sol_reserve |-> sol_reserve,
     lp_supply |-> lp_supply,
     fee_rate |-> fee_rate,
     pool_authority |-> pool_authority,
     token_vault |-> token_vault,
     sol_vault |-> sol_vault]

\* ------------------------------------------------------------ identities
Users == {"alice", "bob"}

\* the address derived from ["pool_authority", token_mint]
POOL_AUTHORITY_PDA == "pool_authority_pda"

NO_KEY == "none"

\* every key an instruction can name as its signer account
Keys == Users \cup {POOL_AUTHORITY_PDA}

\* ------------------------------------------------- derived addresses
\* Seeds are written as sequences of names: "token_mint" is the key of the
\* pool's mint, "bump" the bump byte of the derivation.
\* the address the program's id and a full seed list (bump included) hash to;
\* different seed lists give different addresses
CreateProgramAddress(seeds) == [pda |-> seeds]

\* seeds = [...], bump in an account constraint: the address of the seeds
\* followed by the bump
FindProgramAddress(seeds) == CreateProgramAddress(Append(seeds, "bump"))

\* InitializePool: token::authority = pool_authority for the token vault;
\* the SOL vault is the account at its own derived address, which has to
\* sign for a transfer out of it
VaultOwner(vault) ==
    IF vault = "token_vault"
    THEN FindProgramAddress(<<"pool_authority", "token_mint">>)
    ELSE FindProgramAddress(<<"sol_vault", "token_mint">>)

\* the transfer of SOL out of the vault as swap_token_to_sol and
\* remove_liquidity request it
SolOutRequest ==
    [vault |-> "sol_vault",
     authority |-> FindProgramAddress(<<"sol_vault", "token_mint">>),
     signer_seeds |-> <<"sol_vault", "bump">>]

\* the transfer of tokens out of the vault as swap_sol_to_token and
\* remove_liquidity request it
TokenOutRequest ==
    [vault |-> "token_vault",
     authority |-> FindProgramAddress(<<"pool", "token_mint">>),
     signer_seeds |-> <<"pool", "bump">>]

\* the transfers out of a vault an instruction requests when it computed
\* calc and got as far as its transfers
VaultOutRequests(op, calc) ==
    CASE op = "swap_token_to_sol" -> {SolOutRequest}
      [] op = "swap_sol_to_token" -> {TokenOutRequest}
      [] op = "remove_liquidity" ->
            (IF calc.token_amount > 0 THEN {TokenOutRequest} ELSE {})
            \cup (IF calc.sol_amount > 0 THEN {SolOutRequest} ELSE {})
      [] OTHER -> {}

\* ------------------------------------------------------ transfer service
\* The token program and the system program carry out the transfers the
\* handlers request.  They are not part of this program: whether they accept
\* a request is an input of the instruction.
\* the result of a transfer the token program or the system program refuses
REJECTED == 0 - 2

\* caller -> vault: refused when the caller cannot pay (funded = FALSE) or
\* the vault's u64 balance would overflow
TransferIn(vault, amount, funded) ==
    IF funded /\ vault + amount <= U64_MAX THEN vault + amount ELSE REJECTED

\* vault -> caller: refused when the service does not accept the request
\* (accepted = FALSE) or the vault holds less than the amount
TransferOut(vault, amount, accepted) ==
    IF accepted /\ amount <= vault THEN vault - amount ELSE REJECTED

\* ------------------------------------------------------------- outcomes
NoEvent == [kind |-> "none"]

\* the handler did not run
NoCalc == [none |-> 0]

Done(st, calc, event) ==
    [result |-> "Ok", st |-> st, calc |-> calc, event |-> event]

Fail(kind, st, calc) ==
    [result |-> kind, st |-> st, calc |-> calc, event |-> NoEvent]

MinU64(a, b) == IF a = PANIC \/ b = PANIC THEN PANIC ELSE Min(a, b)

\* ------------------------------------------------------------ handlers
\* Each handler maps the accounts before the call and the instruction's
\* inputs to its result, the accounts as the handler left them when it
\* returned (on an error: with the writes made so far), the amounts it
\* computed and the event it emitted.  xfer = <<a, b>> says whether the
\* transfer service accepts the first and the second transfer of the call.

\* initialize_pool with the pool account declared init_if_needed: an existing
\* pool is written over
initialize_pool_if_needed(st, initial_token_amount, initial_sol_amount, rate, mint_ok, xfer) ==
    LET none == [lp_tokens |-> 0]
        w == [st EXCEPT !.is_initialized = TRUE,
                        !.token_reserve = initial_token_amount,
                        !.sol_reserve = initial_sol_amount,
                        !.lp_supply = 0,
                        !.fee_rate = rate,
                        !.pool_authority = POOL_AUTHORITY_PDA]
        tv == IF initial_token_amount > 0
              THEN TransferIn(w.token_vault, initial_token_amount, xfer[1])
              ELSE w.token_vault
        sv == IF initial_sol_amount > 0
              THEN TransferIn(w.sol_vault, initial_sol_amount, xfer[2])
              ELSE w.sol_vault
        initial_lp_tokens == GeometricMean(initial_token_amount, initial_sol_amount)
    IN IF ~mint_ok THEN Fail("InvalidTokenMint", st, NoCalc)
       ELSE IF tv = REJECTED THEN Fail("TransferFailed", w, none)
       ELSE IF sv = REJECTED
            THEN Fail("TransferFailed", [w EXCEPT !.token_vault = tv], none)
       ELSE Done([w EXCEPT !.token_vault = tv, !.sol_vault = sv,
                           !.lp_supply = initial_lp_tokens],
                 [lp_tokens |-> initial_lp_tokens], NoEvent)

\* initialize_pool with the results of its two transfers dropped instead of
\* propagated
initialize_pool_dropping_errors(st, initial_token_amount, initial_sol_amount, rate, mint_ok, xfer) ==
    LET w == [st EXCEPT !.is_initialized = TRUE,
                        !.token_reserve = initial_token_amount,
                        !.sol_reserve = initial_sol_amount,
                        !.lp_supply = 0,
                        !.fee_rate = rate,
                        !.pool_authority = POOL_AUTHORITY_PDA]
        tv == IF initial_token_amount > 0 /\ xfer[1]
              THEN TransferIn(w.token_vault, initial_token_amount, TRUE)
              ELSE w.token_vault
        sv == IF initial_sol_amount > 0 /\ xfer[2]
              THEN TransferIn(w.sol_vault, initial_sol_amount, TRUE)
              ELSE w.sol_vault
        initial_lp_tokens == GeometricMean(initial_token_amount, initial_sol_amount)
    IN IF st.is_initialized THEN Fail("AccountInUse", st, NoCalc)
       ELSE IF ~mint_ok THEN Fail("InvalidTokenMint", st, NoCalc)
       ELSE Done([w EXCEPT !.token_vault = tv, !.sol_vault = sv,
                           !.lp_supply = initial_lp_tokens],
                 [lp_tokens |-> initial_lp_tokens], NoEvent)

initialize_pool(st, initial_token_amount, initial_sol_amount, rate, mint_ok, xfer) ==
    LET none == [lp_tokens |-> 0]
        w == [st EXCEPT !.is_initialized = TRUE,
                        !.token_reserve = initial_token_amount,
                        !.sol_reserve = initial_sol_amount,
                        !.lp_supply = 0,
                        !.fee_rate = rate,
                        !.pool_authority = POOL_AUTHORITY_PDA]
        tv == IF initial_token_amount > 0
              THEN TransferIn(w.token_vault, initial_token_amount, xfer[1])
              ELSE w.token_vault
        sv == IF initial_sol_amount > 0
              THEN TransferIn(w.sol_vault, initial_sol_amount, xfer[2])
              ELSE w.sol_vault
        initial_lp_tokens == GeometricMean(initial_token_amount, initial_sol_amount)
    IN IF st.is_initialized THEN Fail("AccountInUse", st, NoCalc)
       ELSE IF ~mint_ok THEN Fail("InvalidTokenMint", st, NoCalc)
       ELSE IF tv = REJECTED THEN Fail("TransferFailed", w, none)
       ELSE IF sv = REJECTED
            THEN Fail("TransferFailed", [w EXCEPT !.token_vault = tv], none)
       ELSE Done([w EXCEPT !.token_vault = tv, !.sol_vault = sv,
                           !.lp_supply = initial_lp_tokens],
                 [lp_tokens |-> initial_lp_tokens], NoEvent)

add_liquidity(st, chk, token_amount, sol_amount, min_lp_tokens, xfer) ==
    LET optimal_sol_amount ==
            IF st.token_reserve = 0 THEN sol_amount
            ELSE DivU64(MulU64(chk, token_amount, st.sol_reserve), st.token_reserve)
        optimal_token_amount ==
            IF optimal_sol_amount = PANIC THEN PANIC
            ELSE IF st.sol_reserve = 0 THEN token_amount
            ELSE DivU64(MulU64(chk, sol_amount, st.token_reserve), st.sol_reserve)
        final_token_amount == MinU64(token_amount, optimal_token_amount)
        final_sol_amount == MinU64(sol_amount, optimal_sol_amount)
        lp_tokens ==
            IF final_token_amount = PANIC \/ final_sol_amount = PANIC THEN PANIC
            ELSE IF st.lp_supply = 0
                 THEN GeometricMean(final_token_amount, final_sol_amount)
                 ELSE MinU64(
                     DivU64(MulU64(chk, final_token_amount, st.lp_supply), st.token_reserve),
                     DivU64(MulU64(chk, final_sol_amount, st.lp_supply), st.sol_reserve))
        calc == [final_token_amount |-> final_token_amount,
                 final_sol_amount |-> final_sol_amount,
                 lp_tokens |-> lp_tokens]
        tv == IF final_token_amount > 0
              THEN TransferIn(st.token_vault, final_token_amount, xfer[1])
              ELSE st.token_vault
        sv == IF final_sol_amount > 0
              THEN TransferIn(st.sol_vault, final_sol_amount, xfer[2])
              ELSE st.sol_vault
        moved == [st EXCEPT !.token_vault = tv, !.sol_vault = sv]
        tr == AddU64(chk, st.token_reserve, final_token_amount)
        sr == AddU64(chk, st.sol_reserve, final_sol_amount)
        ls == AddU64(chk, st.lp_supply, lp_tokens)
    IN IF ~st.is_initialized THEN Fail("AccountNotInitialized", st, NoCalc)
       ELSE IF lp_tokens = PANIC THEN Fail("Panic", st, calc)
       ELSE IF ~(lp_tokens >= min_lp_tokens) THEN Fail("SlippageExceeded", st, calc)
       ELSE IF tv = REJECTED THEN Fail("TransferFailed", st, calc)
       ELSE IF sv = REJECTED
            THEN Fail("TransferFailed", [st EXCEPT !.token_vault = tv], calc)
       ELSE IF tr = PANIC THEN Fail("Panic", moved, calc)
       ELSE IF sr = PANIC
            THEN Fail("Panic", [moved EXCEPT !.token_reserve = tr], calc)
       ELSE IF ls = PANIC
            THEN Fail("Panic", [moved EXCEPT !.token_reserve = tr, !.sol_reserve = sr], calc)
       ELSE Done([moved EXCEPT !.token_reserve = tr, !.sol_reserve = sr,
                               !.lp_supply = ls],
                 calc, NoEvent)

\* the swap's liquidity check with <= written for <
LeavesLiquidityOrNone(amount_out, reserve_out) == amount_out <= reserve_out

\* require!(amount_out < reserve_out, InsufficientLiquidity)
LeavesLiquidity(amount_out, reserve_out) == amount_out < reserve_out

\* swap_token_to_sol crediting token_reserve with the amount after the fee
\* while the vault receives the whole token_amount
swap_token_to_sol_crediting_net(st, chk, user, token_amount, min_sol_amount, xfer) ==
    LET token_amount_after_fee ==
            DivU64(MulU64(chk, token_amount,
                          SubU64(chk, FEE_DENOMINATOR, st.fee_rate)),
                   FEE_DENOMINATOR)
        sol_amount_out ==
            DivU64(MulU64(chk, st.sol_reserve, token_amount_after_fee),
                   AddU64(chk, st.token_reserve, token_amount_after_fee))
        calc == [amount_after_fee |-> token_amount_after_fee,
                 amount_out |-> sol_amount_out]
        tv == TransferIn(st.token_vault, token_amount, xfer[1])
        sv == TransferOut(st.sol_vault, sol_amount_out, xfer[2])
        moved == [st EXCEPT !.token_vault = tv, !.sol_vault = sv]
        tr == AddU64(chk, st.token_reserve, token_amount_after_fee)
        sr == SubU64(chk, st.sol_reserve, sol_amount_out)
    IN IF ~st.is_initialized THEN Fail("AccountNotInitialized", st, NoCalc)
       ELSE IF sol_amount_out = PANIC THEN Fail("Panic", st, calc)
       ELSE IF ~(sol_amount_out >= min_sol_amount) THEN Fail("SlippageExceeded", st, calc)
       ELSE IF ~LeavesLiquidity(sol_amount_out, st.sol_reserve)
            THEN Fail("InsufficientLiquidity", st, calc)
       ELSE IF tv = REJECTED THEN Fail("TransferFailed", st, calc)
       ELSE IF sv = REJECTED
            THEN Fail("TransferFailed", [st EXCEPT !.token_vault = tv], calc)
       ELSE IF tr = PANIC THEN Fail("Panic", moved, calc)
       ELSE IF sr = PANIC
            THEN Fail("Panic", [moved EXCEPT !.token_reserve = tr], calc)
       ELSE Done([moved EXCEPT !.token_reserve = tr, !.sol_reserve = sr],
                 calc,
                 [kind |-> "SwapEvent", user |-> user,
                  token_in |-> "token_mint", token_out |-> "SOL",
                  amount_in |-> token_amount, amount_out |-> sol_amount_out])

swap_token_to_sol(st, chk, user, token_amount, min_sol_amount, xfer) ==
    LET token_amount_after_fee ==
            DivU64(MulU64(chk, token_amount,
                          SubU64(chk, FEE_DENOMINATOR, st.fee_rate)),
                   FEE_DENOMINATOR)
        sol_amount_out ==
            DivU64(MulU64(chk, st.sol_reserve, token_amount_after_fee),
                   AddU64(chk, st.token_reserve, token_amount_after_fee))
        calc == [amount_after_fee |-> token_amount_after_fee,
                 amount_out |-> sol_amount_out]
        tv == TransferIn(st.token_vault, token_amount, xfer[1])
        sv == TransferOut(st.sol_vault, sol_amount_out, xfer[2])
        moved == [st EXCEPT !.token_vault = tv, !.sol_vault = sv]
        tr == AddU64(chk, st.token_reserve, token_amount)
        sr == SubU64(chk, st.sol_reserve, sol_amount_out)
    IN IF ~st.is_initialized THEN Fail("AccountNotInitialized", st, NoCalc)
       ELSE IF sol_amount_out = PANIC THEN Fail("Panic", st, calc)
       ELSE IF ~(sol_amount_out >= min_sol_amount) THEN Fail("SlippageExceeded", st, calc)
       ELSE IF ~LeavesLiquidity(sol_amount_out, st.sol_reserve)
            THEN Fail("InsufficientLiquidity", st, calc)
       ELSE IF tv = REJECTED THEN Fail("TransferFailed", st, calc)
       ELSE IF sv = REJECTED
            THEN Fail("TransferFailed", [st EXCEPT !.token_vault = tv], calc)
       ELSE IF tr = PANIC THEN Fail("Panic", moved, calc)
       ELSE IF sr = PANIC
            THEN Fail("Panic", [moved EXCEPT !.token_reserve = tr], calc)
       ELSE Done([moved EXCEPT !.token_reserve = tr, !.sol_reserve = sr],
                 calc,
                 [kind |-> "SwapEvent", user |-> user,
                  token_in |-> "token_mint", token_out |-> "SOL",
                  amount_in |-> token_amount, amount_out |-> sol_amount_out])

swap_sol_to_token(st, chk, user, sol_amount, min_token_amount, xfer) ==
    LET sol_amount_after_fee ==
            DivU64(MulU64(chk, sol_amount,
                          SubU64(chk, FEE_DENOMINATOR, st.fee_rate)),
                   FEE_DENOMINATOR)
        token_amount_out ==
            DivU64(MulU64(chk, st.token_reserve, sol_amount_after_fee),
                   AddU64(chk, st.sol_reserve, sol_amount_after_fee))
        calc == [amount_after_fee |-> sol_amount_after_fee,
                 amount_out |-> token_amount_out]
        tv == TransferOut(st.token_vault, token_amount_out, xfer[1])
        sv == TransferIn(st.sol_vault, sol_amount, xfer[2])
        moved == [st EXCEPT !.token_vault = tv, !.sol_vault = sv]
        sr == AddU64(chk, st.sol_reserve, sol_amount)
        tr == SubU64(chk, st.token_reserve, token_amount_out)
    IN IF ~st.is_initialized THEN Fail("AccountNotInitialized", st, NoCalc)
       ELSE IF token_amount_out = PANIC THEN Fail("Panic", st, calc)
       ELSE IF ~(token_amount_out >= min_token_amount) THEN Fail("SlippageExceeded", st, calc)
       ELSE IF ~LeavesLiquidity(token_amount_out, st.token_reserve)
            THEN Fail("InsufficientLiquidity", st, calc)
       ELSE IF tv = REJECTED THEN Fail("TransferFailed", st, calc)
       ELSE IF sv = REJECTED
            THEN Fail("TransferFailed", [st EXCEPT !.token_vault = tv], calc)
       ELSE IF sr = PANIC THEN Fail("Panic", moved, calc)
       ELSE IF tr = PANIC
            THEN Fail("Panic", [moved EXCEPT !.sol_reserve = sr], calc)
       ELSE Done([moved EXCEPT !.token_reserve = tr, !.sol_reserve = sr],
                 calc,
                 [kind |-> "SwapEvent", user |-> user,
                  token_in |-> "SOL", token_out |-> "token_mint",
                  amount_in |-> sol_amount, amount_out |-> token_amount_out])

\* the two floor checks with the SOL amount compared with the token floor
MeetsTokenFloorTwice(token_amount, sol_amount, min_token_amount, min_sol_amount) ==
    token_amount >= min_token_amount /\ sol_amount >= min_token_amount

\* require!(token_amount >= min_token_amount, SlippageExceeded);
\* require!(sol_amount >= min_sol_amount, SlippageExceeded)
MeetsFloors(token_amount, sol_amount, min_token_amount, min_sol_amount) ==
    token_amount >= min_token_amount /\ sol_amount >= min_sol_amount

remove_liquidity(st, chk, lp_tokens, min_token_amount, min_sol_amount, xfer) ==
    LET token_amount == DivU64(MulU64(chk, st.token_reserve, lp_tokens), st.lp_supply)
        sol_amount ==
            IF token_amount = PANIC THEN PANIC
            ELSE DivU64(MulU64(chk, st.sol_reserve, lp_tokens), st.lp_supply)
        calc == [token_amount |-> token_amount, sol_amount |-> sol_amount]
        tv == IF token_amount > 0
              THEN TransferOut(st.token_vault, token_amount, xfer[1])
              ELSE st.token_vault
        sv == IF sol_amount > 0
              THEN TransferOut(st.sol_vault, sol_amount, xfer[2])
              ELSE st.sol_vault
        moved == [st EXCEPT !.token_vault = tv, !.sol_vault = sv]
        tr == SubU64(chk, st.token_reserve, token_amount)
        sr == SubU64(chk, st.sol_reserve, sol_amount)
        ls == SubU64(chk, st.lp_supply, lp_tokens)
    IN IF ~st.is_initialized THEN Fail("AccountNotInitialized", st, NoCalc)
       ELSE IF sol_amount = PANIC THEN Fail("Panic", st, calc)
       ELSE IF ~MeetsFloors(token_amount, sol_amount, min_token_amount, min_sol_amount)
            THEN Fail("SlippageExceeded", st, calc)
       ELSE IF tv = REJECTED THEN Fail("TransferFailed", st, calc)
       ELSE IF sv = REJECTED
            THEN Fail("TransferFailed", [st EXCEPT !.token_vault = tv], calc)
       ELSE IF tr = PANIC THEN Fail("Panic", moved, calc)
       ELSE IF sr = PANIC
            THEN Fail("Panic", [moved EXCEPT !.token_reserve = tr], calc)
       ELSE IF ls = PANIC
            THEN Fail("Panic", [moved EXCEPT !.token_reserve = tr, !.sol_reserve = sr], calc)
       ELSE Done([moved EXCEPT !.token_reserve = tr, !.sol_reserve = sr,
                               !.lp_supply = ls],
                 calc, NoEvent)

\* update_pool_fee with < written for <= in the cap
update_pool_fee_below_cap(st, signer, new_fee_rate) ==
    LET calc == [old_fee_rate |-> st.fee_rate]
    IN IF ~st.is_initialized THEN Fail("AccountNotInitialized", st, NoCalc)
       ELSE IF signer # st.pool_authority THEN Fail("Unauthorized", st, calc)
       ELSE IF ~(new_fee_rate < MAX_FEE_RATE) THEN Fail("InvalidFeeRate", st, calc)
       ELSE Done([st EXCEPT !.fee_rate = new_fee_rate], calc,
                 [kind |-> "FeeUpdateEvent", old_fee_rate |-> st.fee_rate,
                  new_fee_rate |-> new_fee_rate, updated_by |-> signer])

\* update_pool_fee with the authority compared after the cap, in the handler
\* instead of the account constraint
update_pool_fee_cap_first(st, signer, new_fee_rate) ==
    LET calc == [old_fee_rate |-> st.fee_rate]
    IN IF ~st.is_initialized THEN Fail("AccountNotInitialized", st, NoCalc)
       ELSE IF ~(new_fee_rate <= MAX_FEE_RATE) THEN Fail("InvalidFeeRate", st, calc)
       ELSE IF signer # st.pool_authority THEN Fail("Unauthorized", st, calc)
       ELSE Done([st EXCEPT !.fee_rate = new_fee_rate], calc,
                 [kind |-> "FeeUpdateEvent", old_fee_rate |-> st.fee_rate,
                  new_fee_rate |-> new_fee_rate, updated_by |-> signer])

\* update_pool_fee without the cap
update_pool_fee_uncapped(st, signer, new_fee_rate) ==
    LET calc == [old_fee_rate |-> st.fee_rate]
    IN IF ~st.is_initialized THEN Fail("AccountNotInitialized", st, NoCalc)
       ELSE IF signer # st.pool_authority THEN Fail("Unauthorized", st, calc)
       ELSE Done([st EXCEPT !.fee_rate = new_fee_rate], calc,
                 [kind |-> "FeeUpdateEvent", old_fee_rate |-> st.fee_rate,
                  new_fee_rate |-> new_fee_rate, updated_by |-> signer])

update_pool_fee(st, signer, new_fee_rate) ==
    LET calc == [old_fee_rate |-> st.fee_rate]
    IN IF ~st.is_initialized THEN Fail("AccountNotInitialized", st, NoCalc)
       ELSE IF signer # st.pool_authority THEN Fail("Unauthorized", st, calc)
       ELSE IF ~(new_fee_rate <= MAX_FEE_RATE) THEN Fail("InvalidFeeRate", st, calc)
       ELSE Done([st EXCEPT !.fee_rate = new_fee_rate], calc,
                 [kind |-> "FeeUpdateEvent", old_fee_rate |-> st.fee_rate,
                  new_fee_rate |-> new_fee_rate, updated_by |-> signer])

\* The runtime applies an instruction atomically: the accounts a handler
\* wrote and the transfers it made are kept only if it returned Ok(()).
Commit(st, out) == IF out.result = "Ok" THEN out.st ELSE st

\* --------------------------------------------------------------- inputs
\* alice creates the pool and provides liquidity, bob trades; either may
\* ask to redeem LP shares or to change the fee
Creators == {"alice"}

Providers == {"alice"}

Traders == {"bob"}

InitTokenAmounts == {0, 90, 30000}

InitSolAmounts == {0, 92, 30000}

InitFeeRates == {0, 30, 10001}

DepositAmounts == {0, 90, 92}

SwapAmounts == {0, 1, 50, 300}

LpAmounts == {0, 1, 100}

Floors == {0, 40}

NewFeeRates == {30, 1000, 1001}

\* whether the transfer service accepts the first and the second transfer
XferOutcomes == {<<TRUE, TRUE>>, <<FALSE, TRUE>>, <<TRUE, FALSE>>}

\* 2^(U64_BITS/2): the product of two such amounts is the first to wrap
HalfWord == 2 ^ (U64_BITS \div 2)

\* the inputs of the longer histories
LongInitTokenAmounts == {0, 90, HalfWord}

LongInitSolAmounts == {92, 30000, HalfWord}

LongFeeRates == {0, 30}

LongDepositAmounts == {10, 1000}

LongSwapAmounts == {1, 50}

LongLpAmounts == {1, HalfWord + 1}

Accepted == {<<TRUE, TRUE>>}

\* ------------------------------------------------------------ behaviour
\* no pool account exists and the vaults are empty
Empty ==
    [is_initialized |-> FALSE, token_reserve |-> 0, sol_reserve |-> 0,
     lp_supply |-> 0, fee_rate |-> 0, pool_authority |-> NO_KEY,
     token_vault |-> 0, sol_vault |-> 0]

NoOp ==
    [op |-> "none", user |-> NO_KEY, args |-> <<>>, xfer |-> <<TRUE, TRUE>>,
     result |-> "Ok", calc |-> NoCalc, event |-> NoEvent, pre |-> Empty]

Init ==
    /\ overflow_checks \in BOOLEAN
    /\ is_initialized = Empty.is_initialized
    /\ token_reserve = Empty.token_reserve
    /\ sol_reserve = Empty.sol_reserve
    /\ lp_supply = Empty.lp_supply
    /\ fee_rate = Empty.fee_rate
    /\ pool_authority = Empty.pool_authority
    /\ token_vault = Empty.token_vault
    /\ sol_vault = Empty.sol_vault
    /\ lp_minted = [u \in Users |-> 0]
    /\ lp_redeemed = [u \in Users |-> 0]
    /\ deposited = FALSE
    /\ fee_updated = FALSE
    /\ last = NoOp
    /\ prev = NoOp
    /\ nops = 0

\* A failed instruction changes no account, so what can follow it is what can
\* follow the state before it: a behaviour is followed up to its first failed
\* instruction and for at most limit instructions.
Running(limit) == nops < limit /\ last.result = "Ok"

\* One instruction, processed as a whole: the handler has run on the current
\* accounts (out) and the runtime commits or discards what it did.
Process(op, user, args, xfer, out) ==
    \E post \in {Commit(State, out)} :
       /\ nops' = nops + 1
       /\ is_initialized' = post.is_initialized
       /\ token_reserve' = post.token_reserve
       /\ sol_reserve' = post.sol_reserve
       /\ lp_supply' = post.lp_supply
       /\ fee_rate' = post.fee_rate
       /\ pool_authority' = post.pool_authority
       /\ token_vault' = post.token_vault
       /\ sol_vault' = post.sol_vault
       /\ last' = [op |-> op, user |-> user, args |-> args, xfer |-> xfer,
                   result |-> out.result, calc |-> out.calc,
                   event |-> out.event, pre |-> State]
       /\ fee_updated' = (fee_updated \/ (op = "update_pool_fee" /\ out.result = "Ok"))
       /\ UNCHANGED overflow_checks

InitializePoolWith(limit, token_amounts, sol_amounts, rates, mints, xfers) ==
    /\ Running(limit)
    /\ \E user \in Creators, t \in token_amounts, b \in sol_amounts,
       f \in rates, mint_ok \in mints, xfer \in xfers :
        \E out \in {initialize_pool(State, t, b, f, mint_ok, xfer)} :
           /\ Process("initialize_pool", user, <<t, b, f>>, xfer, out)
           /\ lp_minted' = IF out.result = "Ok"
                           THEN [lp_minted EXCEPT ![user] = @ + out.calc.lp_tokens]
                           ELSE lp_minted
           /\ deposited' = (deposited \/ (out.result = "Ok" /\ (t > 0 \/ b > 0)))
           /\ UNCHANGED lp_redeemed

AddLiquidityWith(limit, amounts, floors, xfers) ==
    /\ Running(limit)
    /\ \E user \in Providers, ta \in amounts, sa \in amounts,
       min_lp \in floors, xfer \in xfers :
        \E out \in {add_liquidity(State, overflow_checks, ta, sa, min_lp, xfer)} :
           /\ Process("add_liquidity", user, <<ta, sa, min_lp>>, xfer, out)
           /\ lp_minted' = IF out.result = "Ok"
                           THEN [lp_minted EXCEPT ![user] = @ + out.calc.lp_tokens]
                           ELSE lp_minted
           /\ deposited' = (deposited \/ out.result = "Ok")
           /\ UNCHANGED lp_redeemed

\* the amount the swap just before paid out, swapped back by the next one
JustPaid ==
    IF last.op \in {"swap_token_to_sol", "swap_sol_to_token"} /\ last.result = "Ok"
    THEN {last.calc.amount_out} ELSE {}

SwapTokenToSolWith(limit, amounts, floors, xfers) ==
    /\ Running(limit)
    /\ \E user \in Traders, a \in amounts, min_out \in floors, xfer \in xfers :
        \E out \in {swap_token_to_sol(State, overflow_checks, user, a, min_out, xfer)} :
           /\ Process("swap_token_to_sol", user, <<a, min_out>>, xfer, out)
           /\ UNCHANGED <<lp_minted, lp_redeemed, deposited>>

SwapSolToTokenWith(limit, amounts, floors, xfers) ==
    /\ Running(limit)
    /\ \E user \in Traders, a \in amounts, min_out \in floors, xfer \in xfers :
        \E out \in {swap_sol_to_token(State, overflow_checks, user, a, min_out, xfer)} :
           /\ Process("swap_sol_to_token", user, <<a, min_out>>, xfer, out)
           /\ UNCHANGED <<lp_minted, lp_redeemed, deposited>>

\* the LP amounts a caller asks to redeem include the amount the deposit
\* just before minted
JustMinted ==
    IF last.op = "add_liquidity" /\ last.result = "Ok"
    THEN {last.calc.lp_tokens} ELSE {}

RemoveLiquidityWith(limit, users, amounts, floors, xfers) ==
    /\ Running(limit)
    /\ \E user \in users, lp \in amounts \cup JustMinted, min_t \in floors,
       min_s \in floors, xfer \in xfers :
        \E out \in {remove_liquidity(State, overflow_checks, lp, min_t, min_s, xfer)} :
           /\ Process("remove_liquidity", user, <<lp, min_t, min_s>>, xfer, out)
           /\ lp_redeemed' = IF out.result = "Ok"
                             THEN [lp_redeemed EXCEPT ![user] = @ + lp]
                             ELSE lp_redeemed
           /\ UNCHANGED <<lp_minted, deposited>>

\* an instruction is signed by a caller's key; no caller holds a key for a
\* program-derived address
UpdatePoolFeeWith(limit, signers, rates) ==
    /\ Running(limit)
    /\ \E signer \in signers, f \in rates :
        \E out \in {update_pool_fee(State, signer, f)} :
           /\ Process("update_pool_fee", signer, <<f>>, <<TRUE, TRUE>>, out)
           /\ UNCHANGED <<lp_minted, lp_redeemed, deposited>>

\* ---- every instruction on every input above, MaxOps instructions deep
InitializePool ==
    /\ InitializePoolWith(MaxOps, InitTokenAmounts, InitSolAmounts, InitFeeRates,
                          BOOLEAN, XferOutcomes)
    /\ UNCHANGED prev

AddLiquidity ==
    /\ AddLiquidityWith(MaxOps, DepositAmounts, Floors, XferOutcomes)
    /\ UNCHANGED prev

SwapTokenToSol ==
    /\ SwapTokenToSolWith(MaxOps, SwapAmounts, Floors, XferOutcomes)
    /\ UNCHANGED prev

SwapSolToToken ==
    /\ SwapSolToTokenWith(MaxOps, SwapAmounts, Floors, XferOutcomes)
    /\ UNCHANGED prev

RemoveLiquidity ==
    /\ RemoveLiquidityWith(MaxOps, Users, LpAmounts, Floors, XferOutcomes)
    /\ UNCHANGED prev

UpdatePoolFee ==
    /\ UpdatePoolFeeWith(MaxOps, Users, NewFeeRates)
    /\ UNCHANGED prev

Next ==
    \/ InitializePool
    \/ AddLiquidity
    \/ SwapTokenToSol
    \/ SwapSolToToken
    \/ RemoveLiquidity
    \/ UpdatePoolFee

Spec == Init /\ [][Next]_vars

\* ---- longer histories: MaxLongOps instructions deep, on fewer inputs, with
\* no floor and every transfer accepted, keeping the last two instructions
LongInitializePool ==
    /\ InitializePoolWith(MaxLongOps, LongInitTokenAmounts, LongInitSolAmounts,
                          LongFeeRates, {TRUE}, Accepted)
    /\ prev' = last

LongAddLiquidity ==
    /\ AddLiquidityWith(MaxLongOps, LongDepositAmounts, {0}, Accepted)
    /\ prev' = last

LongSwapTokenToSol ==
    /\ SwapTokenToSolWith(MaxLongOps, LongSwapAmounts \cup JustPaid, {0}, Accepted)
    /\ prev' = last

LongSwapSolToToken ==
    /\ SwapSolToTokenWith(MaxLongOps, LongSwapAmounts \cup JustPaid, {0}, Accepted)
    /\ prev' = last

LongRemoveLiquidity ==
    /\ RemoveLiquidityWith(MaxLongOps, Providers, LongLpAmounts, {0}, Accepted)
    /\ prev' = last

LongUpdatePoolFee ==
    /\ UpdatePoolFeeWith(MaxLongOps, Users, LongFeeRates)
    /\ prev' = last

NextLong ==
    \/ LongInitializePool
    \/ LongAddLiquidity
    \/ LongSwapTokenToSol
    \/ LongSwapSolToToken
    \/ LongRemoveLiquidity
    \/ LongUpdatePoolFee

SpecLong == Init /\ [][NextLong]_vars

\* ---- the handlers on every signer key: the histories above with the signer
\* of update_pool_fee drawn from every key, the recorded authority's included,
\* and every fee rate initialize_pool and update_pool_fee are given
SignedInitializePool ==
    /\ InitializePoolWith(MaxSignedOps, LongInitTokenAmounts, LongInitSolAmounts,
                          InitFeeRates, {TRUE}, Accepted)
    /\ prev' = last

SignedAddLiquidity ==
    /\ AddLiquidityWith(MaxSignedOps, LongDepositAmounts, {0}, Accepted)
    /\ prev' = last

SignedSwapTokenToSol ==
    /\ SwapTokenToSolWith(MaxSignedOps, LongSwapAmounts, {0}, Accepted)
    /\ prev' = last

SignedSwapSolToToken ==
    /\ SwapSolToTokenWith(MaxSignedOps, LongSwapAmounts, {0}, Accepted)
    /\ prev' = last

SignedRemoveLiquidity ==
    /\ RemoveLiquidityWith(MaxSignedOps, Providers, LongLpAmounts, {0}, Accepted)
    /\ prev' = last

SignedUpdatePoolFee ==
    /\ UpdatePoolFeeWith(MaxSignedOps, Keys, NewFeeRates)
    /\ prev' = last

NextSigned ==
    \/ SignedInitializePool
    \/ SignedAddLiquidity
    \/ SignedSwapTokenToSol
    \/ SignedSwapSolToToken
    \/ SignedRemoveLiquidity
    \/ SignedUpdatePoolFee

SpecSigned == Init /\ [][NextSigned]_vars

\* ------------------------------------------------- exact wide products
\* a * b for a, b below 2^(U64_BITS+1), as three digits <<hi, mid, lo>> in
\* base WideBase, most significant first
WideBase == 2 ^ ((U64_BITS + 1) \div 2)

WideMul(a, b) ==
    LET a1 == a \div WideBase
        a0 == a % WideBase
        b1 == b \div WideBase
        b0 == b % WideBase
        p0 == a0 * b0
        p1 == a1 * b0 + a0 * b1 + p0 \div WideBase
    IN <<a1 * b1 + p1 \div WideBase, p1 % WideBase, p0 % WideBase>>

WideLeq(x, y) ==
    \/ x[1] < y[1]
    \/ x[1] = y[1] /\ x[2] < y[2]
    \/ x[1] = y[1] /\ x[2] = y[2] /\ x[3] <= y[3]

\* a * b <= c * d
ProdLeq(a, b, c, d) == WideLeq(WideMul(a, b), WideMul(c, d))

\* ------------------------------------------------------------- claims
Succeeded(op) == last.op = op /\ last.result = "Ok"

Swapped == Succeeded("swap_token_to_sol") \/ Succeeded("swap_sol_to_token")

\* C1: for every successful swap, in either direction and for every fee
\* rate initialize_pool accepts, token_reserve * sol_reserve after the swap
\* is at least token_reserve * sol_reserve before it.
C1_ProductNeverDecreases ==
    Swapped =>
        ProdLeq(last.pre.token_reserve, last.pre.sol_reserve,
                token_reserve, sol_reserve)

Failed == last.op # "none" /\ last.result # "Ok"

Ran == last.op # "none" /\ last.calc # NoCalc

IsSwap == last.op \in {"swap_token_to_sol", "swap_sol_to_token"}

\* a transfer the instruction had to make was refused by the service
InitTransferRefused ==
    /\ last.op = "initialize_pool"
    /\ Ran
    /\ \/ last.args[1] > 0 /\ ~last.xfer[1]
       \/ last.args[2] > 0 /\ ~last.xfer[2]

\* C2: an instruction that ends in an error leaves the pool record and the
\* vaults exactly as they were; an initialize_pool whose token or SOL
\* transfer is refused ends in an error and leaves no pool record, although
\* it wrote the pool fields before asking for the transfers; a swap one of
\* whose transfers is refused does not succeed.
C2_ErrorsChangeNothing ==
    /\ Failed => State = last.pre
    /\ InitTransferRefused =>
           /\ last.result = "TransferFailed"
           /\ ~is_initialized
           /\ token_vault = last.pre.token_vault
           /\ sol_vault = last.pre.sol_vault
    /\ (IsSwap /\ last.xfer # <<TRUE, TRUE>>) => last.result # "Ok"

C2_Witness ==
    /\ InitTransferRefused
    /\ last.args[1] > 0
    /\ last.xfer = <<TRUE, FALSE>>
    /\ last.result = "TransferFailed"
    /\ ~is_initialized

\* the amounts a handler compares with the caller's floors
BelowFloor(amount, floor) == amount # PANIC /\ amount < floor

\* C3 as claimed: whenever an amount the operation computed is below the
\* caller's floor, the operation fails with SlippageExceeded and the state
\* is unchanged.
C3_AnyAmountBelowFloorIsSlippage ==
    (/\ Ran
     /\ \/ last.op = "add_liquidity"
           /\ BelowFloor(last.calc.lp_tokens, last.args[3])
        \/ IsSwap /\ BelowFloor(last.calc.amount_out, last.args[2])
        \/ last.op = "remove_liquidity"
           /\ \/ BelowFloor(last.calc.token_amount, last.args[2])
              \/ BelowFloor(last.calc.sol_amount, last.args[3]))
    => (last.result = "SlippageExceeded" /\ State = last.pre)

\* C3 (amended): whenever the operation computed all its amounts without an
\* arithmetic abort and one of them is below the caller's floor, it fails
\* with SlippageExceeded and the state is unchanged.
C3_BelowFloorIsSlippage ==
    (/\ Ran
     /\ \/ last.op = "add_liquidity"
           /\ BelowFloor(last.calc.lp_tokens, last.args[3])
        \/ IsSwap /\ BelowFloor(last.calc.amount_out, last.args[2])
        \/ last.op = "remove_liquidity"
           /\ last.calc.sol_amount # PANIC
           /\ \/ BelowFloor(last.calc.token_amount, last.args[2])
              \/ BelowFloor(last.calc.sol_amount, last.args[3]))
    => (last.result = "SlippageExceeded" /\ State = last.pre)

\* remove_liquidity refused for its SOL amount alone
C3_Witness ==
    /\ last.op = "remove_liquidity"
    /\ Ran
    /\ last.calc.token_amount >= last.args[2]
    /\ BelowFloor(last.calc.sol_amount, last.args[3])
    /\ last.result = "SlippageExceeded"

ReserveOutBefore ==
    IF last.op = "swap_token_to_sol" THEN last.pre.sol_reserve
    ELSE last.pre.token_reserve

ReserveOutNow ==
    IF last.op = "swap_token_to_sol" THEN sol_reserve ELSE token_reserve

Drains ==
    /\ IsSwap
    /\ Ran
    /\ last.calc.amount_out # PANIC
    /\ last.calc.amount_out >= ReserveOutBefore

\* C4 as claimed: a swap that computes amount_out >= reserve_out fails with
\* InsufficientLiquidity whatever the caller's min_amount_out.
C4_DrainIsInsufficientLiquidity ==
    Drains => last.result = "InsufficientLiquidity"

\* C4 (amended): a swap that computes amount_out >= reserve_out fails, with
\* SlippageExceeded when amount_out < min_amount_out and with
\* InsufficientLiquidity otherwise; a successful swap leaves the output
\* reserve positive.
C4_DrainFails ==
    /\ Drains =>
           /\ last.result = (IF last.calc.amount_out < last.args[2]
                             THEN "SlippageExceeded"
                             ELSE "InsufficientLiquidity")
           /\ State = last.pre
    /\ Swapped => ReserveOutNow > 0

\* amount_out equal to a nonzero output reserve, on a pool with no input reserve
C4_Witness ==
    /\ Drains
    /\ last.calc.amount_out = ReserveOutBefore
    /\ ReserveOutBefore > 0
    /\ last.result = "InsufficientLiquidity"

\* q = floor(x * y / d), for natural numbers below 2^(U64_BITS+1)
IsFloorQuotient(q, x, y, d) ==
    /\ d > 0
    /\ q >= 0
    /\ WideLeq(WideMul(q, d), WideMul(x, y))
    /\ ~WideLeq(WideMul(q + 1, d), WideMul(x, y))

\* floor(amount_in * (10000 - fee_rate) / 10000), in unbounded integers
ExactEffectiveIn(amount_in, rate) ==
    (amount_in * (FEE_DENOMINATOR - rate)) \div FEE_DENOMINATOR

ReserveInBefore ==
    IF last.op = "swap_token_to_sol" THEN last.pre.token_reserve
    ELSE last.pre.sol_reserve

ReserveInNow ==
    IF last.op = "swap_token_to_sol" THEN token_reserve ELSE sol_reserve

\* C5: a successful swap computes effective_in = floor(amount_in * (10000 -
\* fee_rate) / 10000) and amount_out = floor(reserve_out * effective_in /
\* (reserve_in + effective_in)) from the reserves and fee before the call,
\* adds the full amount_in to reserve_in, takes exactly amount_out from
\* reserve_out and leaves lp_supply and fee_rate unchanged.
C5_SwapArithmetic ==
    Swapped =>
        LET effective_in == ExactEffectiveIn(last.args[1], last.pre.fee_rate)
        IN /\ effective_in >= 0
           /\ last.calc.amount_after_fee = effective_in
           /\ IsFloorQuotient(last.calc.amount_out, ReserveOutBefore,
                              effective_in, ReserveInBefore + effective_in)
           /\ ReserveInNow = ReserveInBefore + last.args[1]
           /\ ReserveOutNow = ReserveOutBefore - last.calc.amount_out
           /\ lp_supply = last.pre.lp_supply
           /\ fee_rate = last.pre.fee_rate

\* C6: after a successful initialize_pool(t, b, f) the pool holds
\* token_reserve = t, sol_reserve = b, fee_rate = f, is_initialized and
\* lp_supply = floor(sqrt(t * b)).
C6_GenesisState ==
    Succeeded("initialize_pool") =>
        /\ is_initialized
        /\ token_reserve = last.args[1]
        /\ sol_reserve = last.args[2]
        /\ fee_rate = last.args[3]
        /\ WideLeq(WideMul(lp_supply, lp_supply),
                   WideMul(last.args[1], last.args[2]))
        /\ ~WideLeq(WideMul(lp_supply + 1, lp_supply + 1),
                    WideMul(last.args[1], last.args[2]))

\* a successful add_liquidity directly followed by a successful
\* remove_liquidity of exactly the LP amount it minted
RoundTrip ==
    /\ Succeeded("remove_liquidity")
    /\ prev.op = "add_liquidity"
    /\ prev.result = "Ok"
    /\ last.args[1] = prev.calc.lp_tokens

\* C7: the round trip returns no more tokens than final_token_amount and no
\* more SOL than final_sol_amount of the deposit.
C7_RoundTripNeverGains ==
    RoundTrip =>
        /\ last.calc.token_amount <= prev.calc.final_token_amount
        /\ last.calc.sol_amount <= prev.calc.final_sol_amount

\* C8: once a deposit has succeeded and a reserve is nonzero, lp_supply is
\* strictly positive.
C8_SupplyPositiveWhileReserves ==
    (deposited /\ (token_reserve # 0 \/ sol_reserve # 0)) => lp_supply > 0

\* C9: no caller has redeemed more LP shares than its own deposits minted.
C9_RedeemedWithinMinted ==
    \A u \in Users : lp_redeemed[u] <= lp_minted[u]

\* the last instruction, run on the same accounts with the same inputs by a
\* build that checks every integer operation
CheckedRun ==
    CASE last.op = "add_liquidity" ->
             add_liquidity(last.pre, TRUE, last.args[1], last.args[2],
                           last.args[3], last.xfer)
      [] last.op = "swap_token_to_sol" ->
             swap_token_to_sol(last.pre, TRUE, last.user, last.args[1],
                               last.args[2], last.xfer)
      [] last.op = "swap_sol_to_token" ->
             swap_sol_to_token(last.pre, TRUE, last.user, last.args[1],
                               last.args[2], last.xfer)
      [] last.op = "remove_liquidity" ->
             remove_liquidity(last.pre, TRUE, last.args[1], last.args[2],
                              last.args[3], last.xfer)
      [] OTHER -> [result |-> last.result]

\* C10: an operation one of whose u64 operations overflows or underflows
\* (the checked run panics) does not succeed and changes no state.
C10_OverflowAborts ==
    CheckedRun.result = "Panic" => (last.result # "Ok" /\ State = last.pre)

\* an update_pool_fee that reached the pool's constraints
IsUpdate == last.op = "update_pool_fee" /\ Ran

ByAuthority == last.user = last.pre.pool_authority

\* what the claims say of an update the recorded authority makes within the cap
UpdateApplied ==
    /\ last.result = "Ok"
    /\ State = [last.pre EXCEPT !.fee_rate = last.args[1]]
    /\ last.event.kind = "FeeUpdateEvent"
    /\ last.event.old_fee_rate = last.pre.fee_rate
    /\ last.event.new_fee_rate = last.args[1]

\* C11 as claimed: update_pool_fee with new_fee_rate > 1000 fails with
\* InvalidFeeRate whoever calls and leaves fee_rate unchanged; with
\* new_fee_rate <= 1000 and called by the recorded authority it succeeds,
\* replaces fee_rate, changes no other field and emits the event with the
\* previous and the new rate.
C11_AboveCapIsInvalidFeeRate ==
    IsUpdate =>
        /\ last.args[1] > MAX_FEE_RATE =>
               (last.result = "InvalidFeeRate" /\ fee_rate = last.pre.fee_rate)
        /\ (last.args[1] <= MAX_FEE_RATE /\ ByAuthority) => UpdateApplied

\* C11 (amended): called by the recorded authority, update_pool_fee with
\* new_fee_rate > 1000 fails with InvalidFeeRate and leaves fee_rate
\* unchanged, and with new_fee_rate <= 1000 it succeeds, replaces fee_rate,
\* changes no other field and emits the event with the previous and the new
\* rate.
C11_AuthorityUpdate ==
    (IsUpdate /\ ByAuthority) =>
        /\ last.args[1] > MAX_FEE_RATE =>
               (last.result = "InvalidFeeRate" /\ State = last.pre)
        /\ last.args[1] <= MAX_FEE_RATE => UpdateApplied

\* the authority sets the rate to the cap itself
C11_Witness ==
    /\ IsUpdate
    /\ ByAuthority
    /\ last.args[1] = MAX_FEE_RATE
    /\ last.pre.fee_rate # MAX_FEE_RATE
    /\ fee_rate = MAX_FEE_RATE
    /\ last.event.old_fee_rate = last.pre.fee_rate

\* C12: update_pool_fee called by an identity other than the recorded
\* authority fails with Unauthorized for every new_fee_rate, above the cap
\* included, changes nothing and emits no event.
C12_OthersAreUnauthorized ==
    (IsUpdate /\ ~ByAuthority) =>
        /\ last.result = "Unauthorized"
        /\ State = last.pre
        /\ last.event = NoEvent

C12_Witness ==
    /\ IsUpdate
    /\ last.user \in Users
    /\ last.args[1] > MAX_FEE_RATE
    /\ last.result = "Unauthorized"
    /\ fee_rate = last.pre.fee_rate

\* C13: initialize_pool on an asset that has a pool fails and leaves the pool
\* as it was, and no instruction deletes the pool or resets is_initialized.
C13_OnePoolPerMint ==
    /\ (last.op = "initialize_pool" /\ last.pre.is_initialized) =>
           (last.result # "Ok" /\ State = last.pre)
    /\ last.pre.is_initialized => is_initialized

\* a second initialize_pool, with other amounts and a valid mint, is refused
C13_Witness ==
    /\ last.op = "initialize_pool"
    /\ last.pre.is_initialized
    /\ last.result = "AccountInUse"
    /\ last.args[1] # last.pre.token_reserve
    /\ last.xfer = <<TRUE, TRUE>>
    /\ State = last.pre

\* C14: in every state after the first successful update_pool_fee the
\* fee_rate is within [0, 1000], and an instruction on an existing pool other
\* than a successful update_pool_fee leaves fee_rate as it was.
C14_FeeWithinCapAfterUpdate ==
    /\ fee_updated => (fee_rate >= 0 /\ fee_rate <= MAX_FEE_RATE)
    /\ (last.pre.is_initialized /\ ~Succeeded("update_pool_fee")) =>
           fee_rate = last.pre.fee_rate

\* a pool created with a rate above the cap, then updated, then traded on
C14_Witness ==
    /\ fee_updated
    /\ prev.op = "update_pool_fee"
    /\ prev.result = "Ok"
    /\ prev.pre.fee_rate > MAX_FEE_RATE
    /\ Swapped
    /\ fee_rate <= MAX_FEE_RATE

\* m = min(cap, floor(x * y / d))
IsCappedQuotient(m, cap, x, y, d) ==
    \/ m = cap /\ d > 0 /\ ProdLeq(cap, d, x, y)
    \/ m <= cap /\ IsFloorQuotient(m, x, y, d)

\* r = floor(sqrt(x * y))
IsFloorRoot(r, x, y) ==
    /\ r >= 0
    /\ WideLeq(WideMul(r, r), WideMul(x, y))
    /\ ~WideLeq(WideMul(r + 1, r + 1), WideMul(x, y))

\* C15: a successful add_liquidity(token_amount, sol_amount, min_lp_tokens)
\* has final_token = min(token_amount, optimal_token) and final_sol =
\* min(sol_amount, optimal_sol), with optimal_sol = sol_amount if
\* token_reserve = 0 else floor(token_amount * sol_reserve / token_reserve)
\* and optimal_token symmetrically; mints lp = floor(sqrt(final_token *
\* final_sol)) if lp_supply = 0, else the smaller of floor(final_token *
\* lp_supply / token_reserve) and floor(final_sol * lp_supply / sol_reserve);
\* moves exactly final_token and final_sol into the vaults and adds exactly
\* final_token, final_sol and lp to token_reserve, sol_reserve and lp_supply.
C15_DepositArithmetic ==
    Succeeded("add_liquidity") =>
        LET T == last.pre.token_reserve
            S == last.pre.sol_reserve
            L == last.pre.lp_supply
            ta == last.args[1]
            sa == last.args[2]
            ft == last.calc.final_token_amount
            fs == last.calc.final_sol_amount
            lp == last.calc.lp_tokens
        IN /\ IF S = 0 THEN ft = ta ELSE IsCappedQuotient(ft, ta, sa, T, S)
           /\ IF T = 0 THEN fs = sa ELSE IsCappedQuotient(fs, sa, ta, S, T)
           /\ IF L = 0 THEN IsFloorRoot(lp, ft, fs)
              ELSE \/ IsFloorQuotient(lp, ft, L, T) /\ S > 0 /\ ProdLeq(lp, S, fs, L)
                   \/ IsFloorQuotient(lp, fs, L, S) /\ T > 0 /\ ProdLeq(lp, T, ft, L)
           /\ token_vault = last.pre.token_vault + ft
           /\ sol_vault = last.pre.sol_vault + fs
           /\ token_reserve = T + ft
           /\ sol_reserve = S + fs
           /\ lp_supply = L + lp

\* a successful deposit or withdrawal on a pool that had LP shares outstanding
ChangedShares ==
    /\ Succeeded("add_liquidity") \/ Succeeded("remove_liquidity")
    /\ last.pre.lp_supply > 0

\* C16: a successful add_liquidity or remove_liquidity on a pool with
\* lp_supply > 0 does not lower either reserve per outstanding LP share:
\* token_reserve' * lp_supply >= token_reserve * lp_supply' and
\* sol_reserve' * lp_supply >= sol_reserve * lp_supply'.
C16_NoDilution ==
    ChangedShares =>
        /\ ProdLeq(last.pre.token_reserve, lp_supply,
                   token_reserve, last.pre.lp_supply)
        /\ ProdLeq(last.pre.sol_reserve, lp_supply,
                   sol_reserve, last.pre.lp_supply)

\* C17: on every successful swap, in either direction, for every amount_in
\* (0 included) and every fee_rate (0 included), the product reserve_in *
\* reserve_out strictly increases.
C17_ProductStrictlyIncreases ==
    Swapped =>
        ~ProdLeq(token_reserve, sol_reserve,
                 last.pre.token_reserve, last.pre.sol_reserve)

\* C18: in every reachable state the token vault holds token_reserve and the
\* SOL vault holds sol_reserve of deposits; every successful instruction moves
\* into or out of each vault exactly what it adds to or takes from the
\* reserve.
C18_VaultsMatchReserves ==
    /\ token_vault = token_reserve
    /\ sol_vault = sol_reserve
    /\ (Ran /\ last.result = "Ok") =>
          /\ token_vault - last.pre.token_vault
                 = token_reserve - last.pre.token_reserve
          /\ sol_vault - last.pre.sol_vault
                 = sol_reserve - last.pre.sol_reserve

\* a swap with a fee: the vault took the whole token_amount, more than the
\* amount after the fee, and paid SOL out
C18_Witness ==
    /\ Succeeded("swap_token_to_sol")
    /\ last.calc.amount_after_fee < last.args[1]
    /\ last.calc.amount_out > 0
    /\ token_vault = last.pre.token_vault + last.args[1]
    /\ sol_vault = last.pre.sol_vault - last.calc.amount_out

\* a successful swap whose input is what the successful swap just before it,
\* in the other direction, paid out
SwapRoundTrip ==
    /\ IsSwap
    /\ last.result = "Ok"
    /\ prev.op \in {"swap_token_to_sol", "swap_sol_to_token"}
    /\ prev.op # last.op
    /\ prev.result = "Ok"
    /\ last.args[1] = prev.calc.amount_out

\* C19: with fee_rate <= 10000, a successful swap of a immediately followed
\* by a successful swap of its proceeds back pays out no more than a, in
\* either order of the two directions.
C19_SwapRoundTripNeverProfits ==
    (SwapRoundTrip /\ prev.pre.fee_rate <= FEE_DENOMINATOR)
        => last.calc.amount_out <= prev.args[1]

\* a round trip that paid something on both legs and returned less than went in
C19_Witness ==
    /\ SwapRoundTrip
    /\ prev.pre.fee_rate <= FEE_DENOMINATOR
    /\ prev.calc.amount_out > 0
    /\ last.calc.amount_out > 0
    /\ last.calc.amount_out < prev.args[1]

\* the requests for a transfer out of a vault that the last instruction made,
\* when it passed its require! checks and all its transfers were accepted
RequestedOut ==
    IF Ran /\ last.result = "Ok"
    THEN VaultOutRequests(last.op, last.calc) ELSE {}

\* the request names the owner initialize_pool gave the vault and carries
\* signer seeds that derive that owner
DerivesOwner(r) ==
    /\ r.authority = VaultOwner(r.vault)
    /\ CreateProgramAddress(r.signer_seeds) = r.authority

\* C20: every transfer out of a vault is requested with an authority and
\* signer seeds that derive the address initialize_pool set up as owner of
\* that vault: ["pool_authority", token_mint] for the token vault,
\* ["sol_vault", token_mint] for the SOL vault.
C20_OutRequestsDeriveOwner ==
    \A r \in RequestedOut : DerivesOwner(r)

\* C21: the identity initialize_pool records as the pool's authority is the
\* caller that signed initialize_pool, a key an external caller can sign
\* with, so that an update_pool_fee within the cap can succeed.
C21_AuthorityCanSign ==
    is_initialized =>
        /\ pool_authority \in Users
        /\ Succeeded("initialize_pool") => pool_authority = last.user

====
